---- MODULE Spec2Model ----
(***************************************************************************)
(* Model of scrobbler.py: the Scrobbler object that receives iTunes        *)
(* playerInfo notifications, updates last.fm's "now playing" and schedules *)
(* a single-shot NSTimer whose callback scrobbles the track.               *)
(*                                                                         *)
(* Python values that may be None are modelled as options: <<>> is None    *)
(* and <<v>> is the value v.  Times and lengths are integers in            *)
(* milliseconds (the source divides by 1000 into float seconds).  A Python *)
(* integer holding a persistent id is [neg, mag]: its sign and its         *)
(* magnitude as four 16-bit limbs, most significant first.                 *)
(***************************************************************************)
EXTENDS Integers, Sequences, FiniteSets, TLC

VARIABLES
    scrobble_timer, \* Scrobbler.scrobble_timer: 0 is None, else an index of timers
    timers,         \* every NSTimer created so far, in creation order
    playerState,    \* what itunes.playerState() returns now
    currentTrack,   \* the track itunes.currentTrack() refers to now
    last,           \* what the last handler that ran was given and did
    probe           \* two payload ids and the expected ids computed from them

vars == <<scrobble_timer, timers, playerState, currentTrack, last, probe>>

-----------------------------------------------------------------------------
(* Bounds of the model *)

\* NSTimers created in one behaviour
MaxTimers == 2

-----------------------------------------------------------------------------
(* Python values *)

None == <<>>
Some(v) == <<v>>

\* dict.get(key, default)
Get(o, default) == IF o = None THEN default ELSE o[1]

\* truth value of an optional string: None and "" are false
Truthy(o) == o # None /\ o[1] # ""

\* x or None, for an integer x
OrNone(x) == IF x = 0 THEN None ELSE Some(x)

Min(a, b) == IF a <= b THEN a ELSE b

\* math.floor in place of math.ceil
FloorHalfSeconds(ms) == ms \div 2000

\* math.ceil(ms / 1000 / 2) for a length of ms milliseconds
CeilHalfSeconds(ms) == (ms + 1999) \div 2000

-----------------------------------------------------------------------------
(* Program constants *)

\* int.from_bytes(b'kPSS', byteorder="big") and int.from_bytes(b'kPSP', byteorder="big")
ITUNES_PLAYER_STATE_STOPPED == 1800426323
ITUNES_PLAYER_STATE_PLAYING == 1800426320

SCROBBLER_MIN_TRACK_LENGTH == 30
SCROBBLER_HALFWAY_THRESHOLD == 240

-----------------------------------------------------------------------------
(* Persistent ids: a 64-bit quantity that PyObjC hands over as a signed    *)
(* integer in the notification and that ScriptingBridge reports as a       *)
(* string of 16 upper-case hexadecimal digits.                             *)

LimbBase == 65536

HexDigits == <<"0", "1", "2", "3", "4", "5", "6", "7",
               "8", "9", "A", "B", "C", "D", "E", "F">>

\* the four hexadecimal digits of one limb
LimbHex(l) == << HexDigits[(l \div 4096) + 1],
                 HexDigits[((l \div 256) % 16) + 1],
                 HexDigits[((l \div 16) % 16) + 1],
                 HexDigits[(l % 16) + 1] >>

\* "{:016X}".format(u) for 0 <= u < 2^64 given as limbs
Format016X(u) == LimbHex(u[1]) \o LimbHex(u[2]) \o LimbHex(u[3]) \o LimbHex(u[4])

\* the one's complement, v + 2**64 - 1
Plus2p64_off_by_one(v) ==
    [i \in 1..4 |-> (LimbBase - 1) - v.mag[i]]

\* v + 2**64 for a negative Python integer v >= -2^64, as limbs
Plus2p64(v) ==
    LET c  == [i \in 1..4 |-> (LimbBase - 1) - v.mag[i]]
        s4 == c[4] + 1
        s3 == c[3] + (s4 \div LimbBase)
        s2 == c[2] + (s3 \div LimbBase)
        s1 == c[1] + (s2 \div LimbBase)
    IN  << s1 % LimbBase, s2 % LimbBase, s3 % LimbBase, s4 % LimbBase >>

\* the conversion without the test for a negative value
ExpectedPersistentId_no_sign_test(pid) == Format016X(pid.mag)

\* expected_persistent_id of scrobbleTimerFired_, for a payload id that is not None
ExpectedPersistentId(pid) ==
    Format016X(IF pid.neg THEN Plus2p64(pid) ELSE pid.mag)

-----------------------------------------------------------------------------
(* The environment: the iTunes library and the notifications it posts.     *)
(* Notifications reach the run loop asynchronously and a handler can block  *)
(* for five seconds, so what iTunes is doing when a handler runs is not     *)
(* tied to the notification being handled: the player changes freely.       *)

Tracks == 1..4

\* The tracks iTunes can play.
\*   id       the track's 64-bit persistent id, as iTunes shows it (None: it has none)
\*   pid      PersistentID of the playerInfo notification, as PyObjC converts it
\*   hex      currentTrack().persistentID() (None when iTunes reports none)
\*   duration currentTrack().duration(), in milliseconds
Catalog == <<
    \* a library track whose id has the top bit set
    [id |-> Some(<<"F","F","F","F","F","F","F","F","F","F","F","F","F","F","F","F">>),
     pid |-> Some([neg |-> TRUE, mag |-> <<0, 0, 0, 1>>]),
     hex |-> Some(<<"F","F","F","F","F","F","F","F","F","F","F","F","F","F","F","F">>),
     artist |-> "artist1", name |-> "name1", album |-> "album1",
     albumArtist |-> "albumartist1", trackNumber |-> 1, duration |-> 200000],
    \* a short library track
    [id |-> Some(<<"0","1","2","3","4","5","6","7","8","9","A","B","C","D","E","F">>),
     pid |-> Some([neg |-> FALSE, mag |-> <<291, 17767, 35243, 52719>>]),
     hex |-> Some(<<"0","1","2","3","4","5","6","7","8","9","A","B","C","D","E","F">>),
     artist |-> "artist2", name |-> "name2", album |-> "album2",
     albumArtist |-> "albumartist2", trackNumber |-> 2, duration |-> 10000],
    \* an Apple Music stream: an id in the notification, none from currentTrack()
    [id |-> Some(<<"8","0","0","0","0","0","0","0","0","0","0","0","0","0","0","0">>),
     pid |-> Some([neg |-> TRUE, mag |-> <<32768, 0, 0, 0>>]),
     hex |-> None,
     artist |-> "artist3", name |-> "name3", album |-> "album3",
     albumArtist |-> "albumartist3", trackNumber |-> 3, duration |-> 500000],
    \* a radio stream: no id anywhere, no length
    [id |-> None,
     pid |-> None,
     hex |-> None,
     artist |-> "artist4", name |-> "name4", album |-> "",
     albumArtist |-> "", trackNumber |-> 0, duration |-> 0]
>>

\* "Total Time" of a notification, in milliseconds; None is a missing key
TotalTimes == {None, Some(0), Some(500), Some(10000), Some(30000), Some(30001),
               Some(40000), Some(500000)}

\* (Artist, Name, Total Time) of a notification about track t: artist and
\* title with every length, or one of them missing or empty
Metadata(t) ==
    LET a == Some(Catalog[t].artist)
        n == Some(Catalog[t].name)
    IN  ({<<a, n>>} \X TotalTimes)
        \cup ({<<None, n>>, <<Some(""), n>>, <<a, None>>, <<a, Some("")>>}
              \X {Some(0), Some(40000)})

\* notification.userInfo() of a playerInfo notification about track t;
\* track is not a key of the dictionary: it records which track the
\* notification announces
UserInfo(state, t, an, total) ==
    [PlayerState |-> state, track |-> t,
     Artist |-> an[1], Name |-> an[2],
     Album |-> Some(Catalog[t].album),
     AlbumArtist |-> Some(Catalog[t].albumArtist),
     TrackNumber |-> Some(Catalog[t].trackNumber),
     TotalTime |-> total,
     PersistentID |-> Catalog[t].pid]

PlayingNotifications ==
    UNION { { UserInfo(Some("Playing"), t, m[1], m[2]) : m \in Metadata(t) } :
            t \in Tracks }

OtherNotifications ==
    { UserInfo(state, t, <<Some(Catalog[t].artist), Some(Catalog[t].name)>>,
               Some(Catalog[t].duration)) :
        <<state, t>> \in {Some("Paused"), Some("Stopped"), Some("Buffering"), None} \X {1, 4} }

\* what itunes.playerState() can return: playing, stopped, and 'kPSp' (paused)
PlayerStates == {ITUNES_PLAYER_STATE_PLAYING, ITUNES_PLAYER_STATE_STOPPED,
                 ITUNES_PLAYER_STATE_PLAYING + 32}

\* time.time() and itunes.playerPosition() at a timer fire, in milliseconds
Nows == {1000000, 1000500}
Positions == {0, 20700}

-----------------------------------------------------------------------------
(* NSTimer.  A timer is valid from its creation until it is invalidated or  *)
(* its callback has returned (it does not repeat); the run loop fires only  *)
(* valid timers, and a timer that is no longer valid has released its       *)
(* userInfo.  fired and cancelled record what happened to the timer: its    *)
(* callback ran past the isValid() test, cancel_scrobble_timer was applied  *)
(* to it before it had fired.                                               *)

\* NSTimer.scheduledTimerWithTimeInterval_target_selector_userInfo_repeats_
NewTimer(timeout, userinfo) ==
    [valid |-> TRUE, fired |-> FALSE, cancelled |-> FALSE,
     userInfo |-> Some(userinfo), timeInterval |-> timeout, scrobbles |-> 0]

\* NSTimer.invalidate
invalidate(tm) ==
    [tm EXCEPT !.valid = FALSE, !.userInfo = None, !.timeInterval = 0]

\* the valid timers among ts
Live(ts) == { i \in 1..Len(ts) : ts[i].valid }

-----------------------------------------------------------------------------
(* The Scrobbler's methods.  self is the object while a handler runs:       *)
(* scrobble_timer and the timers, with the trace of the calls the handler   *)
(* has made so far, the kwargs of its last.fm call, and the track that      *)
(* itunes.currentTrack() gave it (None while it has not asked); clock is    *)
(* what time.time() and itunes.playerPosition() gave it.                    *)

Self ==
    [scrobble_timer |-> scrobble_timer, timers |-> timers,
     trace |-> <<>>, kwargs |-> None, playerState |-> None, currentTrack |-> None,
     clock |-> None]

Call(self, what) == [self EXCEPT !.trace = Append(@, what)]

\* cancel_scrobble_timer without self.scrobble_timer.invalidate()
cancel_without_invalidate(self) ==
    IF self.scrobble_timer # 0
    THEN [Call(self, "invalidate") EXCEPT
            !.timers[self.scrobble_timer].cancelled =
                @ \/ ~self.timers[self.scrobble_timer].fired,
            !.scrobble_timer = 0]
    ELSE self

cancel_scrobble_timer(self) ==
    IF self.scrobble_timer # 0
    THEN [Call(self, "invalidate") EXCEPT
            !.timers[self.scrobble_timer] =
                invalidate([@ EXCEPT !.cancelled = @ \/ ~self.timers[self.scrobble_timer].fired]),
            !.scrobble_timer = 0]
    ELSE self

\* kwargs of update_now_playing, and of scrobbleTimerFired_ when it
\* scrobbles from the notification
NotificationKwargs(userinfo) ==
    [artist |-> userinfo.Artist,
     album_artist |-> userinfo.AlbumArtist,
     title |-> userinfo.Name,
     album |-> userinfo.Album,
     track_number |-> userinfo.TrackNumber,
     duration |-> OrNone(Get(userinfo.TotalTime, 0) \div 1000)]

\* update_now_playing taken to return True always
should_scrobble_always(userinfo) == TRUE

\* what update_now_playing returns
should_scrobble(userinfo) == Truthy(userinfo.Artist) /\ Truthy(userinfo.Name)

\* update_now_playing that tests the artist only
update_now_playing_artist_only(self, userinfo) ==
    IF ~Truthy(userinfo.Artist)
    THEN self
    ELSE [Call(self, "update_now_playing") EXCEPT
            !.kwargs = Some(NotificationKwargs(userinfo))]

\* update_now_playing that also ignores a track without a duration
update_now_playing_needs_duration(self, userinfo) ==
    IF ~Truthy(userinfo.Artist) \/ ~Truthy(userinfo.Name)
       \/ Get(userinfo.TotalTime, 0) \div 1000 = 0
    THEN self
    ELSE [Call(self, "update_now_playing") EXCEPT
            !.kwargs = Some(NotificationKwargs(userinfo))]

update_now_playing(self, userinfo) ==
    IF ~Truthy(userinfo.Artist) \/ ~Truthy(userinfo.Name)
    THEN self
    ELSE [Call(self, "update_now_playing") EXCEPT
            !.kwargs = Some(NotificationKwargs(userinfo))]

\* timeout of prepare_to_scrobble for a track of ms milliseconds
Timeout(ms) == Min(CeilHalfSeconds(ms), SCROBBLER_HALFWAY_THRESHOLD)

ScheduleTimer(self, timeout, userinfo) ==
    [Call(self, "scheduledTimer") EXCEPT
        !.timers = Append(@, NewTimer(timeout, userinfo)),
        !.scrobble_timer = Len(self.timers) + 1]

\* prepare_to_scrobble without the test of PersistentID
NoPersistentID_unchecked(userinfo) == FALSE

\* the test of prepare_to_scrobble made on the "Album" key
NoPersistentID_tests_album(userinfo) == userinfo.Album = None

\* userinfo.get("PersistentID") is None
NoPersistentID(userinfo) == userinfo.PersistentID = None

\* prepare_to_scrobble without the "Still zero-length" test
StillZeroLength_unchecked(len) == FALSE

\* not track_length, for the length currentTrack().duration() gave
StillZeroLength(len) == len = 0

\* track_length < SCROBBLER_MIN_TRACK_LENGTH, for a length of ms milliseconds
TooShort(ms) == ms < SCROBBLER_MIN_TRACK_LENGTH * 1000

\* prepare_to_scrobble after its call of cancel_scrobble_timer; ct is the
\* track itunes.currentTrack() refers to after the sleep
PrepareAfterCancel(self, userinfo, ct) ==
    LET ms == Get(userinfo.TotalTime, 0)
    IN  IF NoPersistentID(userinfo) THEN self
        ELSE IF ms = 0 THEN
            LET s2 == [Call(self, "sleep") EXCEPT !.currentTrack = Some(ct)]
                len == Catalog[ct].duration
            IN  IF StillZeroLength(len) THEN s2
                ELSE ScheduleTimer(s2, Timeout(len), userinfo)
        ELSE IF TooShort(ms) THEN self
        ELSE ScheduleTimer(self, Timeout(ms), userinfo)

\* prepare_to_scrobble without its call of cancel_scrobble_timer
prepare_without_cancel(self, userinfo, ct) ==
    PrepareAfterCancel(self, userinfo, ct)

prepare_to_scrobble(self, userinfo, ct) ==
    PrepareAfterCancel(cancel_scrobble_timer(self), userinfo, ct)

\* receivedNotification_ that cancels on "Paused" only
HandleNotification_paused_only(self, userinfo, ct) ==
    IF userinfo.PlayerState = Some("Playing") THEN
        IF should_scrobble(userinfo)
        THEN prepare_to_scrobble(update_now_playing(self, userinfo), userinfo, ct)
        ELSE update_now_playing(self, userinfo)
    ELSE IF userinfo.PlayerState = Some("Paused") THEN
        cancel_scrobble_timer(self)
    ELSE self

\* receivedNotification_ that cancels on every state but "Playing"
HandleNotification_else_cancels(self, userinfo, ct) ==
    IF userinfo.PlayerState = Some("Playing") THEN
        IF should_scrobble(userinfo)
        THEN prepare_to_scrobble(update_now_playing(self, userinfo), userinfo, ct)
        ELSE update_now_playing(self, userinfo)
    ELSE cancel_scrobble_timer(self)

\* the body of receivedNotification_
HandleNotification(self, userinfo, ct) ==
    IF userinfo.PlayerState = Some("Playing") THEN
        IF should_scrobble(userinfo)
        THEN prepare_to_scrobble(update_now_playing(self, userinfo), userinfo, ct)
        ELSE update_now_playing(self, userinfo)
    ELSE IF userinfo.PlayerState \in {Some("Paused"), Some("Stopped")} THEN
        cancel_scrobble_timer(self)
    ELSE self

\* kwargs of scrobbleTimerFired_ when it scrobbles from current_track
CurrentTrackKwargs(ct) ==
    [artist |-> Some(Catalog[ct].artist),
     title |-> Some(Catalog[ct].name),
     album |-> Some(Catalog[ct].album),
     album_artist |-> Some(Catalog[ct].albumArtist),
     track_number |-> Some(Catalog[ct].trackNumber),
     duration |-> Some(Catalog[ct].duration \div 1000)]

\* int(time.time()) - int(self.itunes.playerPosition())
Timestamp_truncates_each(now, pos) == (now \div 1000) - (pos \div 1000)

\* int(time.time() - self.itunes.playerPosition())
Timestamp(now, pos) ==
    IF now >= pos THEN (now - pos) \div 1000 ELSE -((pos - now) \div 1000)

WithTimestamp(kw, ts) ==
    [artist |-> kw.artist, title |-> kw.title, album |-> kw.album,
     album_artist |-> kw.album_artist, track_number |-> kw.track_number,
     duration |-> kw.duration, timestamp |-> ts]

\* the test of scrobbleTimerFired_ with == for !=
DifferentTrack_inverted(actual_persistent_id, expected_persistent_id) ==
    actual_persistent_id # None /\ actual_persistent_id[1] = expected_persistent_id

\* actual_persistent_id is not None and actual_persistent_id != expected_persistent_id
DifferentTrack(actual_persistent_id, expected_persistent_id) ==
    actual_persistent_id # None /\ actual_persistent_id[1] # expected_persistent_id

\* self.lastfm.scrobble(**kwargs) called twice
Scrobble_twice(self, i, kwargs) ==
    [Call(Call(self, "scrobble"), "scrobble") EXCEPT
        !.kwargs = Some(kwargs),
        !.timers[i].scrobbles = @ + 2]

\* self.lastfm.scrobble(**kwargs) in the callback of timer i
Scrobble(self, i, kwargs) ==
    [Call(self, "scrobble") EXCEPT
        !.kwargs = Some(kwargs),
        !.timers[i].scrobbles = @ + 1]

\* a test for the stopped state only
NotPlaying_stopped_only(ps) == ps = ITUNES_PLAYER_STATE_STOPPED

\* self.itunes.playerState() != ITUNES_PLAYER_STATE_PLAYING
NotPlaying(ps) == ps # ITUNES_PLAYER_STATE_PLAYING

\* kwargs taken from the notification whatever the current track reports
ScrobbleKwargs_from_notification(userinfo, ct) == NotificationKwargs(userinfo)

\* kwargs of scrobbleTimerFired_, by scrobble_from_current_track
ScrobbleKwargs(userinfo, ct) ==
    LET actual_persistent_id == Catalog[ct].hex
        scrobble_from_current_track == actual_persistent_id # None
    IN  IF scrobble_from_current_track
        THEN CurrentTrackKwargs(ct)
        ELSE NotificationKwargs(userinfo)

\* the body of scrobbleTimerFired_ for timer i, with the player in state ps
\* on track ct, at time now and playback position pos
HandleTimerFired(self, i, ps, ct, now, pos) ==
    IF ~self.timers[i].valid THEN Call(self, "invalid")
    ELSE
    LET s1 == [self EXCEPT !.timers[i].fired = TRUE, !.playerState = Some(ps)]
        userinfo == self.timers[i].userInfo[1]
    IN  IF NotPlaying(ps) THEN s1
        ELSE IF userinfo.PersistentID = None THEN Call(s1, "TypeError")
        ELSE
        LET expected_persistent_id == ExpectedPersistentId(userinfo.PersistentID[1])
            s2 == [s1 EXCEPT !.currentTrack = Some(ct)]
            actual_persistent_id == Catalog[ct].hex
            kwargs == ScrobbleKwargs(userinfo, ct)
        IN  IF DifferentTrack(actual_persistent_id, expected_persistent_id)
            THEN s2
            ELSE Scrobble([s2 EXCEPT !.clock = Some([now |-> now, pos |-> pos])],
                          i, WithTimestamp(kwargs, Timestamp(now, pos)))

-----------------------------------------------------------------------------
(* The state machine *)

Done(self, op, userinfo, i) ==
    [op |-> op, userInfo |-> userinfo, timer |-> i,
     liveBefore |-> Live(timers),
     trace |-> self.trace, kwargs |-> self.kwargs,
     playerState |-> self.playerState, currentTrack |-> self.currentTrack,
     clock |-> self.clock]

\* no conversion is being looked at
NoProbe == [a |-> None, b |-> None, ea |-> None, eb |-> None]

Init ==
    /\ scrobble_timer = 0
    /\ timers = <<>>
    /\ playerState \in PlayerStates
    /\ currentTrack \in Tracks
    /\ last = [op |-> "none", userInfo |-> None, timer |-> 0, liveBefore |-> {},
               trace |-> <<>>, kwargs |-> None,
               playerState |-> None, currentTrack |-> None, clock |-> None]
    /\ probe = NoProbe

\* the notification centre delivers a playerInfo notification
receivedNotification_(userinfo) ==
    /\ userinfo.PlayerState = Some("Playing") => Len(timers) < MaxTimers
    /\ LET self == HandleNotification(Self, userinfo, currentTrack)
       IN  /\ scrobble_timer' = self.scrobble_timer
           /\ timers' = self.timers
           /\ last' = Done(self, "notification", Some(userinfo), 0)
    /\ UNCHANGED <<playerState, currentTrack, probe>>

\* the run loop fires timer i; when the callback has returned the timer,
\* which does not repeat, is no longer valid
scrobbleTimerFired_(i, now, pos) ==
    /\ timers[i].valid
    /\ LET userinfo == timers[i].userInfo
           self == HandleTimerFired(Self, i, playerState, currentTrack, now, pos)
       IN  /\ scrobble_timer' = self.scrobble_timer
           /\ timers' = [self.timers EXCEPT ![i] = invalidate(@)]
           /\ last' = Done(self, "fire", userinfo, i)
    /\ UNCHANGED <<playerState, currentTrack, probe>>

\* iTunes changes state or track
PlayerChange(ps, t) ==
    /\ <<ps, t>> # <<playerState, currentTrack>>
    /\ playerState' = ps
    /\ currentTrack' = t
    /\ UNCHANGED <<scrobble_timer, timers, last, probe>>

Next ==
    \/ \E userinfo \in PlayingNotifications \cup OtherNotifications :
            receivedNotification_(userinfo)
    \/ \E i \in 1..Len(timers), now \in Nows, pos \in Positions :
            scrobbleTimerFired_(i, now, pos)
    \/ \E ps \in PlayerStates, t \in Tracks : PlayerChange(ps, t)

Spec == Init /\ [][Next]_vars

\* the run loop fires a timer that is due
Fire ==
    \E i \in 1..Len(timers), now \in Nows, pos \in Positions :
        scrobbleTimerFired_(i, now, pos)

\* the notifications of the fair specification: Playing events of every
\* track with no length, a short length and a long length, those of track 1
\* without artist or title, and the other events of track 1
FairNotifications ==
    { u \in PlayingNotifications :
        /\ u.TotalTime \in {Some(0), Some(10000), Some(40000)}
        /\ (Truthy(u.Artist) /\ Truthy(u.Name))
              \/ (u.track = 1 /\ u.TotalTime = Some(40000)) }
    \cup { u \in OtherNotifications : u.track = 1 }

FairNext ==
    \/ \E userinfo \in FairNotifications : receivedNotification_(userinfo)
    \/ Fire
    \/ \E ps \in PlayerStates, t \in Tracks : PlayerChange(ps, t)

\* the run loop does not leave a valid timer unfired for ever
FairSpec == Init /\ [][FairNext]_vars /\ WF_vars(Fire)

-----------------------------------------------------------------------------
(* The conversion of the payload's PersistentID on its own: lines 144-148   *)
(* of scrobbleTimerFired_ applied to two signed 64-bit values.              *)

\* magnitudes of signed 64-bit values, as limbs
Magnitudes ==
    { <<0, 0, 0, 0>>, <<0, 0, 0, 1>>, <<0, 0, 0, 65535>>, <<0, 0, 1, 0>>,
      <<0, 1, 0, 0>>, <<291, 17767, 35243, 52719>>, <<0, 65535, 65535, 65535>>,
      <<32767, 0, 0, 0>>, <<32767, 65535, 65535, 65535>>, <<32768, 0, 0, 0>> }

\* the values -2^63 <= v < 2^63 with these magnitudes
PayloadIds ==
    { [neg |-> FALSE, mag |-> m] : m \in { x \in Magnitudes : x[1] < 32768 } }
    \cup { [neg |-> TRUE, mag |-> m] :
                m \in { x \in Magnitudes :
                          x # <<0, 0, 0, 0>>
                          /\ (x[1] < 32768 \/ x = <<32768, 0, 0, 0>>) } }

IdInit ==
    /\ scrobble_timer = 0
    /\ timers = <<>>
    /\ playerState = ITUNES_PLAYER_STATE_PLAYING
    /\ currentTrack = 1
    /\ last = [op |-> "none", userInfo |-> None, timer |-> 0, liveBefore |-> {},
               trace |-> <<>>, kwargs |-> None,
               playerState |-> None, currentTrack |-> None, clock |-> None]
    /\ probe \in { [a |-> Some(v), b |-> Some(w), ea |-> None, eb |-> None] :
                     v \in PayloadIds, w \in PayloadIds }

\* expected_persistent_id is computed for both values
Convert ==
    /\ probe.a # None /\ probe.ea = None
    /\ probe' = [probe EXCEPT !.ea = Some(ExpectedPersistentId(probe.a[1])),
                              !.eb = Some(ExpectedPersistentId(probe.b[1]))]
    /\ UNCHANGED <<scrobble_timer, timers, playerState, currentTrack, last>>

IdNext == Convert

IdSpec == IdInit /\ [][IdNext]_vars

-----------------------------------------------------------------------------
(* What the last handler was and did *)

\* the last handler made the call what
Did(what) == \E k \in 1..Len(last.trace) : last.trace[k] = what

\* the calls what of the last handler
Count(what) == Cardinality({ k \in 1..Len(last.trace) : last.trace[k] = what })

\* the last handler was receivedNotification_ with this "Player State"
Received(state) ==
    /\ last.op = "notification"
    /\ last.userInfo[1].PlayerState = Some(state)

\* the last handler was scrobbleTimerFired_
Fired == last.op = "fire"

\* the notification, or the fired timer's payload, of the last handler
Info == last.userInfo[1]

HasArtistAndTitle(userinfo) ==
    /\ userinfo.Artist # None /\ userinfo.Artist[1] # ""
    /\ userinfo.Name # None /\ userinfo.Name[1] # ""

-----------------------------------------------------------------------------
(* Claims *)

\* C1: whenever the timer-fire handler submits a scrobble, the track the
\* player is playing at that instant is the track of the Playing event that
\* scheduled the timer.
C1_ScrobbledTrackIsPlaying ==
    (Fired /\ Did("scrobble")) => last.currentTrack = Some(Info.track)

\* C2: at most one timer is live (scheduled, not fired, not cancelled).
C2_AtMostOneLiveTimer == Cardinality(Live(timers)) <= 1

\* C2 witness: a Playing event arrived while a timer was live and scheduled
\* a second timer.
C2_Witness ==
    /\ Received("Playing")
    /\ last.liveBefore # {}
    /\ Did("scheduledTimer")
    /\ Len(timers) = 2

\* C3: a timer cancelled by cancel_scrobble_timer never fires and never
\* leads to a scrobble: no timer is both cancelled and fired, and a scrobble
\* comes from a timer that fired and was not cancelled.
C3_CancelledNeverFires ==
    /\ \A i \in 1..Len(timers) : ~(timers[i].cancelled /\ timers[i].fired)
    /\ (Fired /\ Did("scrobble")) =>
            (timers[last.timer].fired /\ ~timers[last.timer].cancelled)

\* C3 witness: one timer was cancelled and a later one fired and scrobbled.
C3_Witness ==
    /\ Fired /\ Did("scrobble")
    /\ \E i \in 1..Len(timers) : timers[i].cancelled /\ i < last.timer

\* C4 as stated: every Playing, Paused or Stopped event cancels the timer
\* that was live before it, and the cancellation is the handler's first call.
C4_CancelsFirstOnEveryEvent ==
    (Received("Playing") \/ Received("Paused") \/ Received("Stopped")) =>
        /\ \A i \in last.liveBefore : ~timers[i].valid
        /\ last.liveBefore # {} =>
                (last.trace # <<>> /\ last.trace[1] = "invalidate")

\* C4 amended: a Paused or Stopped event cancels the live timer as its only
\* call; a Playing event with artist and title cancels it right after the
\* now-playing update and before anything else, and a timer live afterwards
\* is one scheduled for that event's track; a Playing event without artist
\* or title leaves the live timer alone; a cancelled timer never fires.
C4_CancelsOutstandingTimer ==
    /\ (Received("Paused") \/ Received("Stopped")) =>
            /\ Live(timers) = {}
            /\ \A i \in last.liveBefore : timers[i].cancelled
            /\ last.liveBefore # {} => last.trace = <<"invalidate">>
    /\ (Received("Playing") /\ HasArtistAndTitle(Info)) =>
            /\ \A i \in last.liveBefore : ~timers[i].valid /\ timers[i].cancelled
            /\ last.trace[1] = "update_now_playing"
            /\ last.liveBefore # {} =>
                    (Len(last.trace) >= 2 /\ last.trace[2] = "invalidate")
            /\ \A i \in Live(timers) : timers[i].userInfo[1].track = Info.track
    /\ (Received("Playing") /\ ~HasArtistAndTitle(Info)) =>
            /\ Live(timers) = last.liveBefore
            /\ last.trace = <<>>
    /\ \A i \in 1..Len(timers) : timers[i].cancelled => ~timers[i].fired

\* C4 witness: a Playing event with artist and title arrived while another
\* timer was live, cancelled it after the now-playing update and scheduled
\* its own.
C4_Witness ==
    /\ Received("Playing")
    /\ Info.TotalTime = Some(40000)
    /\ last.liveBefore = {1}
    /\ timers[1].cancelled
    /\ last.trace = <<"update_now_playing", "invalidate", "scheduledTimer">>

\* C5: a Playing event whose artist or title is missing or empty makes no
\* updateNowPlaying call and schedules no timer.
C5_NoMetadataNoCalls ==
    (Received("Playing") /\ ~HasArtistAndTitle(Info)) =>
        /\ ~Did("update_now_playing")
        /\ last.kwargs = None
        /\ ~Did("scheduledTimer")
        /\ Live(timers) \subseteq last.liveBefore

\* C5 witness: a Playing event with an artist, an id and a length of 40 s
\* but no title has been handled.
C5_Witness ==
    /\ Received("Playing")
    /\ Info.Name = None
    /\ Info.PersistentID # None
    /\ Info.TotalTime = Some(40000)

C7_DifferentIdNoScrobble ==
    ( /\ Fired
      /\ last.currentTrack # None
      /\ Catalog[last.currentTrack[1]].hex # None
      /\ Catalog[last.currentTrack[1]].hex # Catalog[Info.track].id ) =>
        (~Did("scrobble") /\ last.kwargs = None)

\* C7 witness: the timer of track 1 fired while iTunes was playing track 2.
C7_Witness ==
    /\ Fired
    /\ Info.track = 1
    /\ last.playerState = Some(ITUNES_PLAYER_STATE_PLAYING)
    /\ last.currentTrack = Some(2)
    /\ ~Did("scrobble")

\* min(ceil(length / 2), 240) seconds for a length of ms milliseconds: the
\* least whole number of seconds that is at least half the length, or 240
ClaimedDelay(ms) ==
    LET S == { d \in 0..240 : 2000 * d >= ms }
    IN  IF S = {} THEN 240 ELSE CHOOSE d \in S : \A e \in S : d <= e

\* the last handler scheduled exactly one timer, with this delay, carrying
\* the notification it was given
ScheduledOne(delay) ==
    /\ Count("scheduledTimer") = 1
    /\ Live(timers) = {Len(timers)}
    /\ Len(timers) \notin last.liveBefore
    /\ timers[Len(timers)].timeInterval = delay
    /\ timers[Len(timers)].userInfo = last.userInfo

\* the last handler scheduled no timer and left none live
ScheduledNone == ~Did("scheduledTimer") /\ Live(timers) = {}

\* the last handler was a Playing event with artist, title and persistentId
ReceivedEligible ==
    /\ Received("Playing")
    /\ HasArtistAndTitle(Info)
    /\ Info.PersistentID # None

\* C8: a Playing event with artist, title, persistentId and a nonzero
\* durationMillis schedules no timer when the length is below 30 s and
\* otherwise exactly one timer with delay min(ceil(length/2), 240).
C8_DelayFromEventLength ==
    (ReceivedEligible /\ Info.TotalTime # None /\ Info.TotalTime[1] # 0) =>
        LET ms == Info.TotalTime[1]
        IN  /\ ms < 30000 => ScheduledNone
            /\ ms >= 30000 => ScheduledOne(ClaimedDelay(ms))
            /\ ms = 500000 => ScheduledOne(240)
            /\ ms = 40000 => ScheduledOne(20)
            /\ ms = 30000 => ScheduledOne(15)
            /\ ms = 10000 => ScheduledNone
            /\ ms = 500 => ScheduledNone

\* C8 witness: an event of 30.001 s scheduled a timer of 16 s.
C8_Witness ==
    /\ ReceivedEligible
    /\ Info.TotalTime = Some(30001)
    /\ ScheduledOne(16)

\* C9: for a Playing event with artist, title, persistentId and
\* durationMillis 0 the length is taken from the player's current track: no
\* length, no timer; a length L of at least 30 s, one timer with delay
\* min(ceil(L/2), 240).
C9_DelayFromCurrentTrack ==
    (ReceivedEligible /\ Info.TotalTime = Some(0)) =>
        /\ last.currentTrack # None
        /\ LET L == Catalog[last.currentTrack[1]].duration
           IN  /\ L = 0 => ScheduledNone
               /\ L >= 30000 => ScheduledOne(ClaimedDelay(L))
               /\ L = 200000 => ScheduledOne(100)

\* C9 witness: an event of length 0 arrived while the current track was
\* 200 s long and scheduled a timer of 100 s.
C9_Witness ==
    /\ ReceivedEligible
    /\ Info.TotalTime = Some(0)
    /\ last.currentTrack = Some(1)
    /\ ScheduledOne(100)

\* the length, in milliseconds, that the last Playing event resolved
ResolvedLength ==
    IF Get(Info.TotalTime, 0) # 0 THEN Info.TotalTime[1]
    ELSE IF last.currentTrack = None THEN 0
    ELSE Catalog[last.currentTrack[1]].duration

\* C10: no timer is scheduled for a track whose resolved length is below
\* 30 s, whether the length came from the event or from the current track;
\* every scheduled delay is between 15 and 240 seconds.
C10_NoTimerBelowMinimumLength ==
    /\ (Received("Playing") /\ Did("scheduledTimer")) => ResolvedLength >= 30000
    /\ \A i \in Live(timers) : timers[i].timeInterval \in 15..240

\* C11 as stated: a scrobble submitted at time T with playback position P
\* carries the timestamp T - floor(P) (here in milliseconds).
C11_TimestampIsNowMinusFloorPosition ==
    (Fired /\ Did("scrobble")) =>
        last.kwargs[1].timestamp * 1000
            = last.clock[1].now - (last.clock[1].pos \div 1000) * 1000

\* C11 amended: the timestamp is floor(T - P), the whole number of seconds
\* s with s <= T - P < s + 1.
C11_TimestampIsFloorOfDifference ==
    (Fired /\ Did("scrobble")) =>
        LET s == last.kwargs[1].timestamp
            d == last.clock[1].now - last.clock[1].pos
        IN  s * 1000 <= d /\ d < (s + 1) * 1000

\* C11 witness: a scrobble at T = 1000.5 s with P = 20.7 s carries 979.
C11_Witness ==
    /\ Fired /\ Did("scrobble")
    /\ last.clock = Some([now |-> 1000500, pos |-> 20700])
    /\ last.kwargs[1].timestamp = 979

\* the value of a hexadecimal digit
HexDigitValue ==
    ("0" :> 0) @@ ("1" :> 1) @@ ("2" :> 2) @@ ("3" :> 3) @@ ("4" :> 4) @@
    ("5" :> 5) @@ ("6" :> 6) @@ ("7" :> 7) @@ ("8" :> 8) @@ ("9" :> 9) @@
    ("A" :> 10) @@ ("B" :> 11) @@ ("C" :> 12) @@ ("D" :> 13) @@ ("E" :> 14) @@
    ("F" :> 15)

\* the number that 16 hexadecimal digits denote, as limbs
ParseHex(h) ==
    [k \in 1..4 |->
        ((HexDigitValue[h[4 * k - 3]] * 16 + HexDigitValue[h[4 * k - 2]]) * 16
            + HexDigitValue[h[4 * k - 1]]) * 16 + HexDigitValue[h[4 * k]]]

\* u + m = 2^64, for u and m given as limbs
SumIs2p64(u, m) ==
    LET t4 == u[4] + m[4]
        t3 == u[3] + m[3] + (t4 \div 65536)
        t2 == u[2] + m[2] + (t3 \div 65536)
        t1 == u[1] + m[1] + (t2 \div 65536)
    IN  /\ t4 % 65536 = 0 /\ t3 % 65536 = 0 /\ t2 % 65536 = 0 /\ t1 % 65536 = 0
        /\ t1 \div 65536 = 1

\* h is the 16-digit rendering of the unsigned value of the signed v
IsUnsignedOf(h, v) ==
    /\ Len(h) = 16
    /\ \A k \in 1..16 : h[k] \in DOMAIN HexDigitValue
    /\ ~v.neg => ParseHex(h) = v.mag
    /\ v.neg => SumIs2p64(ParseHex(h), v.mag)

\* C12: the expected id of a signed 64-bit payload value v is v when
\* v >= 0 and v + 2^64 when v < 0, as 16 upper-case hexadecimal digits (so
\* in [0, 2^64), and -1 gives FFFFFFFFFFFFFFFF); two payload values have the
\* same expected id only if they are the same value.
C12_ExpectedIdIsUnsigned ==
    probe.ea # None =>
        /\ IsUnsignedOf(probe.ea[1], probe.a[1])
        /\ IsUnsignedOf(probe.eb[1], probe.b[1])
        /\ probe.a[1] = [neg |-> TRUE, mag |-> <<0, 0, 0, 1>>] =>
                probe.ea[1] = <<"F","F","F","F","F","F","F","F",
                                "F","F","F","F","F","F","F","F">>
        /\ probe.ea = probe.eb => probe.a = probe.b

\* C12 witness: -1 and 2^63 - 1 have been converted.
C12_Witness ==
    /\ probe.a = Some([neg |-> TRUE, mag |-> <<0, 0, 0, 1>>])
    /\ probe.b = Some([neg |-> FALSE, mag |-> <<32767, 65535, 65535, 65535>>])
    /\ probe.ea # None
    /\ probe.eb = Some(<<"7","F","F","F","F","F","F","F",
                         "F","F","F","F","F","F","F","F">>)

\* C13: when a valid timer fires and the player's state is anything other
\* than playing, the handler submits no scrobble, whether or not the current
\* track is the track of the payload.
C13_NotPlayingNoScrobble ==
    (Fired /\ last.playerState # None
           /\ last.playerState[1] # ITUNES_PLAYER_STATE_PLAYING) =>
        ~Did("scrobble") /\ last.kwargs = None

\* C13 witness: a timer fired while the player was paused on the very track
\* of the payload, and nothing was submitted.
C13_Witness ==
    /\ Fired /\ ~Did("scrobble")
    /\ last.playerState = Some(ITUNES_PLAYER_STATE_PLAYING + 32)
    /\ playerState = ITUNES_PLAYER_STATE_PLAYING + 32
    /\ currentTrack = Info.track
    /\ Catalog[currentTrack].hex # None

\* the six fields of the submission are those of the live track ct
FieldsOfCurrentTrack(kw, ct) ==
    /\ kw.artist = Some(Catalog[ct].artist)
    /\ kw.title = Some(Catalog[ct].name)
    /\ kw.album = Some(Catalog[ct].album)
    /\ kw.album_artist = Some(Catalog[ct].albumArtist)
    /\ kw.track_number = Some(Catalog[ct].trackNumber)
    /\ kw.duration = Some(Catalog[ct].duration \div 1000)

\* the six fields of the submission are those of the scheduling event
FieldsOfSnapshot(kw, userinfo) ==
    /\ kw.artist = userinfo.Artist
    /\ kw.title = userinfo.Name
    /\ kw.album = userinfo.Album
    /\ kw.album_artist = userinfo.AlbumArtist
    /\ kw.track_number = userinfo.TrackNumber
    /\ kw.duration = IF userinfo.TotalTime = None \/ userinfo.TotalTime[1] < 1000
                     THEN None
                     ELSE Some(userinfo.TotalTime[1] \div 1000)

\* C14: at a fire that submits, the six fields all come from the live current
\* track when its persistent id is present (and then equals the expected
\* id), and all come from the snapshot of the scheduling event when the live
\* persistent id is absent.
C14_FieldsFromOneSource ==
    (Fired /\ Did("scrobble")) =>
        LET ct == last.currentTrack[1]
            kw == last.kwargs[1]
        IN  IF Catalog[ct].hex # None
            THEN /\ Catalog[ct].hex[1] = ExpectedPersistentId(Info.PersistentID[1])
                 /\ FieldsOfCurrentTrack(kw, ct)
            ELSE FieldsOfSnapshot(kw, Info)

\* C14 witness: a submission from the live track whose duration differs from
\* the event's, and (in another state) a submission from the snapshot.
C14_Witness ==
    /\ Fired /\ Did("scrobble")
    /\ \/ /\ last.currentTrack = Some(1) /\ Info.TotalTime = Some(40000)
          /\ last.kwargs[1].duration = Some(200)
       \/ /\ last.currentTrack = Some(3) /\ Info.TotalTime = Some(40000)
          /\ last.kwargs[1].duration = Some(40)

\* C15: a Playing event without artist or title does nothing: the timers,
\* and the reference to the pending one, are after the event exactly what
\* they were before it, and no call is made.
C15_SkippedPlayingKeepsTimer ==
    [][(/\ last'.op = "notification"
        /\ last'.userInfo[1].PlayerState = Some("Playing")
        /\ ~HasArtistAndTitle(last'.userInfo[1]))
       => (/\ timers' = timers
           /\ scrobble_timer' = scrobble_timer
           /\ last'.trace = <<>>)]_vars

\* C15 witness: such an event arrived while a timer was pending, and the
\* timer is still pending.
C15_Witness ==
    /\ Received("Playing") /\ ~HasArtistAndTitle(Info)
    /\ last.liveBefore # {}
    /\ Live(timers) = last.liveBefore
    /\ scrobble_timer \in last.liveBefore

\* C16: an event whose player state is not Playing, Paused or Stopped changes
\* nothing: the timers and the reference to the pending one stay as they
\* were, and neither update_now_playing nor scrobble is called.
C16_UnrecognisedStateChangesNothing ==
    [][(/\ last'.op = "notification"
        /\ last'.userInfo[1].PlayerState
              \notin {Some("Playing"), Some("Paused"), Some("Stopped")})
       => (/\ timers' = timers
           /\ scrobble_timer' = scrobble_timer
           /\ last'.trace = <<>>
           /\ last'.kwargs = None)]_vars

\* C16 witness: an event with an unknown state arrived while a timer was
\* pending, and the timer is still pending.
C16_Witness ==
    /\ Received("Buffering")
    /\ last.liveBefore # {}
    /\ Live(timers) = last.liveBefore
    /\ timers[scrobble_timer].valid

\* C17: a Playing event with artist and title makes exactly one
\* update_now_playing call, whether or not a timer gets scheduled; no other
\* event and no timer fire makes one.
C17_OneNowPlayingPerEligibleEvent ==
    /\ (Received("Playing") /\ HasArtistAndTitle(Info)) =>
            Count("update_now_playing") = 1
    /\ (last.op = "notification" /\ Info.PlayerState # Some("Playing")) =>
            ~Did("update_now_playing")
    /\ Fired => ~Did("update_now_playing")

\* C17 witness: a Playing event with artist, title and persistentId whose
\* zero length stayed unresolved: one update, no timer.
C17_Witness ==
    /\ Received("Playing") /\ HasArtistAndTitle(Info)
    /\ Info.PersistentID # None /\ Info.TotalTime = Some(0)
    /\ ~Did("scheduledTimer")
    /\ Count("update_now_playing") = 1

\* a Playing event with artist, title, persistentId and a length of at least
\* 30 s has just scheduled a timer, and the player is playing its track
ScheduledAndPlaying ==
    /\ Received("Playing") /\ Did("scheduledTimer")
    /\ timers[scrobble_timer].valid
    /\ HasArtistAndTitle(Info) /\ Info.PersistentID # None
    /\ Info.TotalTime # None /\ Info.TotalTime[1] >= 30000
    /\ playerState = ITUNES_PLAYER_STATE_PLAYING /\ currentTrack = Info.track

\* a timer fired and a scrobble for the track of its payload, which the
\* player was playing, was submitted; no timer is live
ScrobbledPayloadTrack ==
    /\ Fired /\ Did("scrobble")
    /\ last.currentTrack = Some(Info.track)
    /\ last.kwargs[1].title = IF Catalog[Info.track].hex # None
                              THEN Some(Catalog[Info.track].name)
                              ELSE Info.Name
    /\ Live(timers) = {}

\* the player stopped playing, or left the track of the last event or of
\* the fired timer's payload, or a later event left no timer scheduled
Disturbed ==
    \/ playerState # ITUNES_PLAYER_STATE_PLAYING
    \/ last.op # "none" /\ currentTrack # Info.track
    \/ last.op = "notification" /\ ~Did("scheduledTimer")

\* C18: once a Playing event with artist, title, persistentId and a length of
\* at least 30 s has scheduled a timer while the player plays its track,
\* then, if timers are fairly fired, eventually a scrobble for that track is
\* submitted with no timer left live, unless first the player stops playing
\* that track or a further event arrives that cancels the timer or
\* announces another track.
C18_ScheduledTimerEventuallyScrobbles ==
    ScheduledAndPlaying ~> (ScrobbledPayloadTrack \/ Disturbed)

\* C18 witness: the timer of such an event on the track with the negative
\* persistentId fired with the player still on that track, and the scrobble
\* was submitted.
C18_Witness ==
    /\ ScrobbledPayloadTrack
    /\ Info.TotalTime # None /\ Info.TotalTime[1] >= 30000
    /\ Info.track = 1
    /\ playerState = ITUNES_PLAYER_STATE_PLAYING /\ currentTrack = 1

\* C19: no handler ends in an error: every timer that is scheduled, for as
\* long as it can fire, carries a payload with a persistentId and a non-empty
\* artist and title, and no fire handler has applied its sign test to a
\* missing persistentId.
C19_NoHandlerEndsInError ==
    /\ ~Did("TypeError")
    /\ \A k \in Live(timers) :
            /\ timers[k].userInfo # None
            /\ timers[k].userInfo[1].PersistentID # None
            /\ HasArtistAndTitle(timers[k].userInfo[1])
    /\ Did("scheduledTimer") =>
            Info.PersistentID # None /\ HasArtistAndTitle(Info)

\* C19 witness: a fire handler made the sign test on a negative persistentId
\* and went on to ask for the current track.
C19_Witness ==
    /\ Fired /\ ~Did("TypeError")
    /\ Info.PersistentID # None /\ Info.PersistentID[1].neg
    /\ last.playerState = Some(ITUNES_PLAYER_STATE_PLAYING)
    /\ last.currentTrack # None

\* the scrobbles submitted in the callbacks of the timers ts
RECURSIVE Scrobbles(_)
Scrobbles(ts) ==
    IF ts = <<>> THEN 0 ELSE Head(ts).scrobbles + Scrobbles(Tail(ts))

\* C20: a scrobble is submitted only by the timer-fire handler, at most once
\* in one handler and at most once for one scheduled timer, so that the
\* scrobbles submitted never outnumber the timers scheduled; no notification
\* handler submits one.
C20_AtMostOneScrobblePerTimer ==
    /\ Did("scrobble") => (Fired /\ Count("scrobble") = 1)
    /\ last.op = "notification" => ~Did("scrobble")
    /\ \A k \in 1..Len(timers) :
            /\ timers[k].scrobbles <= 1
            /\ timers[k].scrobbles = 1 => (timers[k].fired /\ ~timers[k].valid)
    /\ Scrobbles(timers) <= Len(timers)

\* C20 witness: two timers were scheduled one after the other, and each of
\* them has fired and submitted its scrobble.
C20_Witness ==
    /\ Len(timers) = 2
    /\ timers[1].scrobbles = 1 /\ timers[2].scrobbles = 1
    /\ Fired /\ last.timer = 2 /\ Count("scrobble") = 1

====
